---- MODULE Spec2Model ----
(***************************************************************************)
(* bankflow (src/main.ts): the transaction ledger of a bank-statement      *)
(* viewer.  Files are selected, read asynchronously, decoded into raw      *)
(* rows, normalised into transactions keyed by a content-derived string,   *)
(* stored in a Map, totalled and rendered.                                 *)
(*                                                                         *)
(* Strings are sequences of one-character strings, so that trimming,       *)
(* upper-casing, searching, splitting and concatenation are computed.      *)
(* Numbers are fixed-point integers counting 1/Scale units (cents).        *)
(***************************************************************************)
EXTENDS Integers, Sequences, FiniteSets, TLC

\* ------------------------------------------------------------------------
\* Bounds of the model
\* ------------------------------------------------------------------------
\* reads in flight at once
MaxPending == 2
\* files in one selection (one FileList)
MaxSelect == 2

\* ------------------------------------------------------------------------
\* Program constants
\* ------------------------------------------------------------------------
\* COLUMN_INDICES (0-based in the source; sequences here are 1-based, so a
\* cell is read through At, which adds one)
DATE == 1
DESCRIPTION == 2
DEBIT == 4
CREDIT == 5
REFERENCE == 7
MIN_ROW_LENGTH == 5

\* fixed-point scale of the number representation: n stands for n / Scale
\* (two decimal places, the resolution of the statement's amounts)
Scale == 10 * 10

\* ------------------------------------------------------------------------
\* Strings
\* ------------------------------------------------------------------------
DigitChars == <<"0", "1", "2", "3", "4", "5", "6", "7", "8", "9">>
LowerChars == <<"a", "b", "c", "d", "e", "f", "g", "h", "l", "o", "p", "s">>
UpperChars == <<"A", "B", "C", "D", "E", "F", "G", "H", "L", "O", "P", "S">>

IsDigit(c) == \E i \in 1..10 : DigitChars[i] = c
DigitVal(c) == (CHOOSE i \in 1..10 : DigitChars[i] = c) - 1
IsSpace(c) == c = " "

\* String.prototype.toUpperCase
UpperChar(c) ==
  IF \E i \in 1..Len(LowerChars) : LowerChars[i] = c
    THEN UpperChars[CHOOSE i \in 1..Len(LowerChars) : LowerChars[i] = c]
    ELSE c
toUpperCase(s) == [i \in 1..Len(s) |-> UpperChar(s[i])]

\* String.prototype.includes
includes(s, sub) ==
  \E i \in 1..(Len(s) - Len(sub) + 1) : SubSeq(s, i, i + Len(sub) - 1) = sub

\* String.prototype.trim
RECURSIVE trimStart(_)
trimStart(s) ==
  IF Len(s) > 0 /\ IsSpace(s[1]) THEN trimStart(Tail(s)) ELSE s
RECURSIVE trimEnd(_)
trimEnd(s) ==
  IF Len(s) > 0 /\ IsSpace(s[Len(s)]) THEN trimEnd(SubSeq(s, 1, Len(s) - 1)) ELSE s
trim(s) == trimEnd(trimStart(s))

\* the index of the first occurrence of character c in s
firstIndexOf(s, c) ==
  CHOOSE j \in 1..Len(s) : s[j] = c /\ \A k \in 1..(j - 1) : s[k] # c

\* String.prototype.split(sep) for a one-character separator
RECURSIVE split(_, _)
splitAt(s, sep, i) == <<SubSeq(s, 1, i - 1)>> \o split(SubSeq(s, i + 1, Len(s)), sep)
split(s, sep) ==
  IF \E i \in 1..Len(s) : s[i] = sep THEN splitAt(s, sep, firstIndexOf(s, sep)) ELSE <<s>>

\* String.prototype.replace(/\./g, "")
removeAll(s, c) == SelectSeq(s, LAMBDA x : x # c)

\* String.prototype.replace(",", "."): the first occurrence only
replaceFirst(s, c, d) ==
  IF \E i \in 1..Len(s) : s[i] = c THEN [s EXCEPT ![firstIndexOf(s, c)] = d] ELSE s

\* String.prototype.padStart(2, "0")
padStart2(s) == IF Len(s) < 2 THEN <<"0">> \o s ELSE s

\* the longest prefix of decimal digits
RECURSIVE digitPrefix(_)
digitPrefix(s) ==
  IF Len(s) > 0 /\ IsDigit(s[1]) THEN <<s[1]>> \o digitPrefix(Tail(s)) ELSE <<>>

AllDigits(s) == \A i \in 1..Len(s) : IsDigit(s[i])

RECURSIVE digitsValue(_)
digitsValue(s) ==
  IF Len(s) = 0 THEN 0 ELSE 10 * digitsValue(SubSeq(s, 1, Len(s) - 1)) + DigitVal(s[Len(s)])

RECURSIVE natToString(_)
natToString(n) ==
  IF n < 10 THEN <<DigitChars[n + 1]>>
  ELSE natToString(n \div 10) \o <<DigitChars[(n % 10) + 1]>>

\* ------------------------------------------------------------------------
\* Numbers (fixed point, Scale units per 1) and their string conversions
\* ------------------------------------------------------------------------
NaN == [nan |-> TRUE, v |-> 0]
Finite(v) == [nan |-> FALSE, v |-> v]

\* a leading sign of a numeric string
isNegative(t) == Len(t) > 0 /\ t[1] = "-"
stripSign(t) == IF Len(t) > 0 /\ (t[1] = "-" \/ t[1] = "+") THEN Tail(t) ELSE t
signed(neg, mag) == IF neg THEN 0 - mag ELSE mag
absolute(n) == IF n < 0 THEN 0 - n ELSE n

\* parseInt(s, 10): leading white space, an optional sign, then the longest
\* run of digits; NaN when there is none.  The result is a plain integer.
parseIntDigits(neg, ds) == IF Len(ds) = 0 THEN NaN ELSE Finite(signed(neg, digitsValue(ds)))
parseIntTrimmed(t) == parseIntDigits(isNegative(t), digitPrefix(stripSign(t)))
parseInt(s) == parseIntTrimmed(trimStart(s))

\* the value of the fraction digits of a decimal literal, in 1/Scale units
\* (digits beyond the second are below the resolution of the representation)
fractionValue(ds) ==
  IF Len(ds) = 0 THEN 0
  ELSE IF Len(ds) = 1 THEN 10 * DigitVal(ds[1])
  ELSE 10 * DigitVal(ds[1]) + DigitVal(ds[2])

\* Number(s) for a string: white space is trimmed, the empty string is 0,
\* StrDecimalLiteral is [+-] (digits [. [digits]] | . digits); anything else
\* over the alphabet of the model is NaN.  ip is the integer part, rest what
\* follows it.
decimalValue(neg, ip, fp) == Finite(signed(neg, Scale * digitsValue(ip) + fractionValue(fp)))
decimalFrom(neg, ip, rest) ==
  IF Len(rest) = 0 THEN (IF Len(ip) = 0 THEN NaN ELSE decimalValue(neg, ip, <<>>))
  ELSE IF rest[1] # "." THEN NaN
  ELSE IF Len(ip) = 0 /\ Len(rest) = 1 THEN NaN
  ELSE IF ~AllDigits(Tail(rest)) THEN NaN
  ELSE decimalValue(neg, ip, Tail(rest))
decimalSplit(neg, ip, u) == decimalFrom(neg, ip, SubSeq(u, Len(ip) + 1, Len(u)))
stringToNumberTrimmed(t) ==
  IF Len(t) = 0 THEN Finite(0)
  ELSE decimalSplit(isNegative(t), digitPrefix(stripSign(t)), stripSign(t))
stringToNumber(s) == stringToNumberTrimmed(trim(s))

\* Number.prototype.toString (template literal / String(n)): the shortest
\* decimal form, no trailing zeros, "-" for negative values
fractionString(f) ==
  IF f = 0 THEN <<>>
  ELSE IF f % 10 = 0 THEN <<".", DigitChars[(f \div 10) + 1]>>
  ELSE <<".", DigitChars[(f \div 10) + 1], DigitChars[(f % 10) + 1]>>
numberToString(n) ==
  (IF n < 0 THEN <<"-">> ELSE <<>>) \o natToString(absolute(n) \div Scale)
    \o fractionString(absolute(n) % Scale)

\* Number.prototype.toFixed(2)
toFixed2(n) ==
  (IF n < 0 THEN <<"-">> ELSE <<>>) \o natToString(absolute(n) \div Scale)
    \o <<".", DigitChars[((absolute(n) % Scale) \div 10) + 1],
              DigitChars[(absolute(n) % 10) + 1]>>

\* formatCurrency
formatCurrency(amount) == <<"$">> \o toFixed2(amount)

\* ------------------------------------------------------------------------
\* Date utilities
\* ------------------------------------------------------------------------
\* days from 1970-01-01 to the civil date y-m-d (proleptic Gregorian); the
\* year is counted from March (yy), in eras of 400 years
daysFromEra(era, yoe, doy) ==
  era * 146097 + yoe * 365 + yoe \div 4 - yoe \div 100 + doy - 719468
daysFromMarch(yy, mp, d) == daysFromEra(yy \div 400, yy % 400, (153 * mp + 2) \div 5 + d - 1)
daysFromCivil(y, m, d) ==
  daysFromMarch(IF m <= 2 THEN y - 1 ELSE y, IF m > 2 THEN m - 3 ELSE m + 9, d)

\* the civil date of a day number (inverse of daysFromCivil)
civilOf(y0, m, d) == [y |-> y0 + (IF m <= 2 THEN 1 ELSE 0), m |-> m, d |-> d]
civilFromMp(y0, doy, mp) ==
  civilOf(y0, IF mp < 10 THEN mp + 3 ELSE mp - 9, doy - (153 * mp + 2) \div 5 + 1)
civilFromDoy(y0, doy) == civilFromMp(y0, doy, (5 * doy + 2) \div 153)
civilFromYoe(era, doe, yoe) ==
  civilFromDoy(yoe + era * 400, doe - (365 * yoe + yoe \div 4 - yoe \div 100))
civilFromEra(era, doe) ==
  civilFromYoe(era, doe, (doe - doe \div 1460 + doe \div 36524 - doe \div 146096) \div 365)
civilFromDays(z) == civilFromEra((z + 719468) \div 146097, (z + 719468) % 146097)

\* XLSX.SSF.parse_date_code: the library answers null for a serial below 0
\* or above 2958465 (31/12/9999); serial 60 is the 29/02/1900 of the 1900
\* date system, serial 0 is day 0 of January 1900, and any other serial
\* counts days from 01/01/1900 (skipping the fictitious day 60).
MaxDateSerial == 2958465
dateCode(c) == [null |-> FALSE, y |-> c.y, m |-> c.m, d |-> c.d]
dateOfSerial(date) ==
  IF date = 60 THEN [null |-> FALSE, y |-> 1900, m |-> 2, d |-> 29]
  ELSE IF date = 0 THEN [null |-> FALSE, y |-> 1900, m |-> 1, d |-> 0]
  ELSE dateCode(civilFromDays(daysFromCivil(1900, 1, 1)
                                + (IF date > 60 THEN date - 1 ELSE date) - 1))
parse_date_code(value) ==
  IF value > MaxDateSerial * Scale \/ value < 0 THEN [null |-> TRUE, y |-> 0, m |-> 0, d |-> 0]
  ELSE dateOfSerial(value \div Scale)

\* ------------------------------------------------------------------------
\* Raw cells and rows: string | number | null
\* ------------------------------------------------------------------------
Str(s) == [t |-> "string", s |-> s, n |-> 0]
Num(n) == [t |-> "number", s |-> <<>>, n |-> n]
Null == [t |-> "null", s |-> <<>>, n |-> 0]

\* an ExcelRow is an array of cells or null
Row(cells) == [isNull |-> FALSE, cells |-> cells]
NullRow == [isNull |-> TRUE, cells |-> <<>>]

\* row[i] with a 0-based index; beyond the end it is undefined, which every
\* use in the program (?? and == null) treats as null
At(row, i) == IF i + 1 <= Len(row.cells) THEN row.cells[i + 1] ELSE Null

\* String(cell ?? "")
cellToString(c) ==
  IF c.t = "string" THEN c.s
  ELSE IF c.t = "number" THEN numberToString(c.n)
  ELSE <<>>

\* parseExcelDate: a number is decoded and formatted DD/MM/YYYY; destructuring
\* the library's null answer throws a TypeError
formatDateCode(r) ==
  IF r.null THEN [throws |-> TRUE, s |-> <<>>]
  ELSE [throws |-> FALSE,
        s |-> padStart2(natToString(r.d)) \o <<"/">>
              \o padStart2(natToString(r.m)) \o <<"/">> \o natToString(r.y)]
parseExcelDate(value) ==
  IF value.t = "number" THEN formatDateCode(parse_date_code(value.n))
  ELSE IF value.t = "string" THEN [throws |-> FALSE, s |-> value.s]
  ELSE [throws |-> FALSE, s |-> <<>>]

\* new Date(year, month, day).getTime(), in days: years 0..99 mean 1900..1999,
\* month and day overflow into the next unit, and a time value more than
\* 10^8 days from the epoch is NaN (an Invalid Date)
MaxTimeDays == 100000000
timeClip(t) == IF t > MaxTimeDays \/ t < 0 - MaxTimeDays THEN NaN ELSE Finite(t)
makeDay(yr, month, day) ==
  timeClip(daysFromCivil(yr + month \div 12, (month % 12) + 1, 1) + day - 1)
dateTime(year, month, day) ==
  makeDay(IF 0 <= year /\ year <= 99 THEN 1900 + year ELSE year, month, day)

\* parseDateString: null unless the string has three "/"-separated parts
\* that all start with an integer
dateFromNumbers(day, month, year) ==
  IF day.nan \/ month.nan \/ year.nan THEN [isNull |-> TRUE, time |-> NaN]
  ELSE [isNull |-> FALSE, time |-> dateTime(year.v, month.v - 1, day.v)]
dateFromParts(parts) ==
  IF Len(parts) # 3 THEN [isNull |-> TRUE, time |-> NaN]
  ELSE dateFromNumbers(parseInt(parts[1]), parseInt(parts[2]), parseInt(parts[3]))
parseDateString(dateStr) == dateFromParts(split(dateStr, "/"))

\* (variant: ascending dates)
compareDatesAscending(dateA, dateB) ==
  IF dateA.isNull /\ dateB.isNull THEN 0
  ELSE IF dateA.isNull THEN 1
  ELSE IF dateB.isNull THEN 0 - 1
  ELSE IF dateA.time.nan \/ dateB.time.nan THEN 0
  ELSE dateA.time.v - dateB.time.v
compareAscending(a, b) ==
  compareDatesAscending(parseDateString(a.date), parseDateString(b.date))

\* compareTransactionsByDate; a NaN difference is what sort reads as +0
compareDates(dateA, dateB) ==
  IF dateA.isNull /\ dateB.isNull THEN 0
  ELSE IF dateA.isNull THEN 1
  ELSE IF dateB.isNull THEN 0 - 1
  ELSE IF dateA.time.nan \/ dateB.time.nan THEN 0
  ELSE dateB.time.v - dateA.time.v
compareTransactionsByDate(a, b) ==
  compareDates(parseDateString(a.date), parseDateString(b.date))

\* ------------------------------------------------------------------------
\* Data parsing
\* ------------------------------------------------------------------------
FECHA == <<"F", "E", "C", "H", "A">>
SALDO == <<"S", "A", "L", "D", "O">>

\* the predicate of findHeaderRowIndex
isHeaderRow(row) ==
  /\ ~row.isNull
  /\ \E i \in 1..Len(row.cells) :
       row.cells[i].t = "string" /\ includes(toUpperCase(row.cells[i].s), FECHA)

\* (variant: findLastIndex in place of findIndex)
findHeaderRowIndexLast(rows) ==
  IF \E i \in 1..Len(rows) : isHeaderRow(rows[i])
    THEN (CHOOSE i \in 1..Len(rows) :
            isHeaderRow(rows[i]) /\ \A j \in (i + 1)..Len(rows) : ~isHeaderRow(rows[j])) - 1
    ELSE 0 - 1

\* findHeaderRowIndex: Array.prototype.findIndex, 0-based, -1 when absent
findHeaderRowIndex(rows) ==
  IF \E i \in 1..Len(rows) : isHeaderRow(rows[i])
    THEN (CHOOSE i \in 1..Len(rows) :
            isHeaderRow(rows[i]) /\ \A j \in 1..(i - 1) : ~isHeaderRow(rows[j])) - 1
    ELSE 0 - 1

\* parseMoney
orZero(r) == IF r.nan \/ r.v = 0 THEN 0 ELSE r.v
\* (variant: replace(".", "") in place of replace(/\./g, ""))
parseMoneyFirstDotOnly(value) ==
  IF value.t = "null" THEN 0
  ELSE IF value.t = "number" THEN value.n
  ELSE orZero(stringToNumber(replaceFirst(
         IF \E i \in 1..Len(value.s) : value.s[i] = "."
         THEN SubSeq(value.s, 1, firstIndexOf(value.s, ".") - 1)
                \o SubSeq(value.s, firstIndexOf(value.s, ".") + 1, Len(value.s))
         ELSE value.s, ",", ".")))

parseMoney(value) ==
  IF value.t = "null" THEN 0
  ELSE IF value.t = "number" THEN value.n
  ELSE orZero(stringToNumber(replaceFirst(removeAll(value.s, "."), ",", ".")))

\* (variant: SALDO is searched without upper-casing the description)
isValidDataRowCaseSensitive(row) ==
  IF row.isNull \/ Len(row.cells) < MIN_ROW_LENGTH THEN FALSE
  ELSE Len(trim(cellToString(At(row, DESCRIPTION)))) > 0
         /\ ~includes(trim(cellToString(At(row, DESCRIPTION))), SALDO)

\* isValidDataRow
isDataDescription(desc) == Len(desc) > 0 /\ ~includes(toUpperCase(desc), SALDO)
isValidDataRow(row) ==
  IF row.isNull \/ Len(row.cells) < MIN_ROW_LENGTH THEN FALSE
  ELSE isDataDescription(trim(cellToString(At(row, DESCRIPTION))))

\* (variant: the reference is left out of the key)
makeKeyWithoutReference(date, description, reference, debit, credit) ==
  date \o <<"|">> \o description \o <<"|">>
    \o numberToString(debit) \o <<"|">> \o numberToString(credit)

\* the key template of parseTransaction
makeKey(date, description, reference, debit, credit) ==
  date \o <<"|">> \o description \o <<"|">> \o reference \o <<"|">>
    \o numberToString(debit) \o <<"|">> \o numberToString(credit)

\* parseTransaction; throws when parseExcelDate does
makeTransaction(date, description, reference, debit, credit) ==
  [throws |-> date.throws,
   tx |-> [key |-> makeKey(date.s, description, reference, debit, credit),
           date |-> date.s,
           description |-> description,
           reference |-> reference,
           debit |-> debit,
           credit |-> credit]]
parseTransaction(row) ==
  makeTransaction(parseExcelDate(At(row, DATE)),
                  trim(cellToString(At(row, DESCRIPTION))),
                  trim(cellToString(At(row, REFERENCE))),
                  parseMoney(At(row, DEBIT)),
                  parseMoney(At(row, CREDIT)))

\* ------------------------------------------------------------------------
\* Transaction management (pure parts)
\* ------------------------------------------------------------------------
\* (variant: set never finds the key and always appends)
mapSetAlwaysAppends(m, k, v) == Append(m, [key |-> k, value |-> v])

\* A Map is a sequence of entries in insertion order, one per key.
\* Map.prototype.set: an existing key keeps its place and takes the new
\* value, a new key is appended.
mapSet(m, k, v) ==
  IF \E i \in 1..Len(m) : m[i].key = k
    THEN [i \in 1..Len(m) |-> IF m[i].key = k THEN [key |-> k, value |-> v] ELSE m[i]]
    ELSE Append(m, [key |-> k, value |-> v])

\* Array.from(map.values())
mapValues(m) == [i \in 1..Len(m) |-> m[i].value]

\* rows.slice(headerIndex + 1)
dataRowsOf(rows) == SubSeq(rows, findHeaderRowIndex(rows) + 2, Len(rows))

\* dataRows.filter(isValidDataRow).map(parseTransaction): the whole array is
\* mapped before the first set; parsed[i].throws marks a throwing row
mapParse(valid) == [i \in 1..Len(valid) |-> parseTransaction(valid[i])]
parsedRows(rows) == mapParse(SelectSeq(dataRowsOf(rows), isValidDataRow))

anyThrows(parsed) == \E i \in 1..Len(parsed) : parsed[i].throws
batchThrows(rows) == anyThrows(parsedRows(rows))

\* .forEach((tx) => state.transactions.set(tx.key, tx))
RECURSIVE setAll(_, _)
setAll(m, txs) ==
  IF Len(txs) = 0 THEN m
  ELSE setAll(mapSet(m, Head(txs).tx.key, Head(txs).tx), Tail(txs))

RECURSIVE sumCredit(_)
sumCredit(m) == IF Len(m) = 0 THEN 0 ELSE Head(m).value.credit + sumCredit(Tail(m))
RECURSIVE sumDebit(_)
sumDebit(m) == IF Len(m) = 0 THEN 0 ELSE Head(m).value.debit + sumDebit(Tail(m))

\* (variant: the totals are not restarted from 0)
recalculateTotalsIncremental(m, oldIncome, oldOutcome) ==
  [income |-> oldIncome + sumCredit(m), outcome |-> oldOutcome + sumDebit(m)]

\* recalculateTotals: both totals restart from 0 and add every stored entry
recalculateTotals(m, oldIncome, oldOutcome) ==
  [income |-> 0 + sumCredit(m), outcome |-> 0 + sumDebit(m)]

\* addTransactions on the ledger [transactions, income, outcome], given the
\* array the filter and the map produced: a throwing row leaves the map
\* before the first set, so nothing is stored and nothing recalculated
withTotals(m, totals) ==
  [transactions |-> m, income |-> totals.income, outcome |-> totals.outcome]
storeAndTotal(m, oldIncome, oldOutcome) ==
  withTotals(m, recalculateTotals(m, oldIncome, oldOutcome))
\* (variant: each row is normalised and stored in turn, so the rows before a
\* throwing one are in the Map when the exception leaves)
rowsBeforeThrow(parsed) ==
  SubSeq(parsed, 1,
         (CHOOSE i \in 1..Len(parsed) :
            parsed[i].throws /\ \A j \in 1..(i - 1) : ~parsed[j].throws) - 1)
addParsedRowByRow(st, parsed) ==
  IF anyThrows(parsed)
    THEN [st EXCEPT !.transactions = setAll(st.transactions, rowsBeforeThrow(parsed))]
  ELSE storeAndTotal(setAll(st.transactions, parsed), st.income, st.outcome)

addParsed(st, parsed) ==
  IF anyThrows(parsed) THEN st
  ELSE storeAndTotal(setAll(st.transactions, parsed), st.income, st.outcome)

\* addTransactions(rows), without the rendering
addTransactions(st, rows) == addParsed(st, parsedRows(rows))

\* Array.prototype.sort(compare): stable, so each element goes after the
\* last element that does not compare greater than it
RECURSIVE sortInsert(_, _)
sortInsert(sorted, x) ==
  IF Len(sorted) = 0 THEN <<x>>
  ELSE IF compareTransactionsByDate(sorted[Len(sorted)], x) <= 0 THEN Append(sorted, x)
  ELSE Append(sortInsert(SubSeq(sorted, 1, Len(sorted) - 1), x), sorted[Len(sorted)])
RECURSIVE sortByDate(_)
sortByDate(a) ==
  IF Len(a) = 0 THEN <<>>
  ELSE sortInsert(sortByDate(SubSeq(a, 1, Len(a) - 1)), a[Len(a)])

\* getSortedTransactions
getSortedTransactions(m) == sortByDate(mapValues(m))

\* ------------------------------------------------------------------------
\* DOM updates (the text content of the rendered elements)
\* ------------------------------------------------------------------------
\* createTransactionRow: the text of the five cells
createTransactionRow(tx) ==
  << tx.date, tx.description, tx.reference,
     IF tx.debit # 0 THEN <<"-">> \o toFixed2(tx.debit) ELSE <<>>,
     IF tx.credit # 0 THEN <<"+">> \o toFixed2(tx.credit) ELSE <<>> >>

\* the rows renderTransactions puts into txBody
renderRows(sorted) == [i \in 1..Len(sorted) |-> createTransactionRow(sorted[i])]
renderedRows(m) == renderRows(getSortedTransactions(m))

RECURSIVE join(_, _)
join(ss, sep) ==
  IF Len(ss) = 0 THEN <<>>
  ELSE IF Len(ss) = 1 THEN ss[1]
  ELSE ss[1] \o sep \o join(Tail(ss), sep)

LoadedFilesLabel == <<"L", "o", "a", "d", "e", "d", " ", "f", "i", "l", "e", "s", ":", " ">>
NoFilesLabel == <<"N", "o", " ", "f", "i", "l", "e", "s", " ", "l", "o", "a", "d", "e", "d">>

\* updateFileListDisplay
fileListText(files) ==
  IF Len(files) > 0 THEN LoadedFilesLabel \o join(files, <<",", " ">>) ELSE NoFilesLabel

\* Set.prototype.add: insertion order, no duplicates
setAdd(set, x) == IF \E i \in 1..Len(set) : set[i] = x THEN set ELSE Append(set, x)

\* ------------------------------------------------------------------------
\* The files the user can select: a name and the rows its sheet decodes to
\* ------------------------------------------------------------------------
HeaderRow == Row(<<Null, Str(<<"F", "e", "c", "h", "a">>), Str(<<"D", "e", "s", "c">>)>>)
\* an unparseable date and a credit of 1
RowHoy == Row(<<Null, Str(<<"h", "o", "y">>), Str(<<"g">>), Null, Null, Num(100)>>)
\* 03/02/2024 PAGO, debit 100
RowPago == Row(<<Null, Str(<<"0", "3", "/", "0", "2", "/", "2", "0", "2", "4">>), Str(<<" ", "P", "A", "G", "O", " ">>), Null, Num(10000), Num(0)>>)
\* a running-balance row and a short row, both dropped by the classifier
RowSaldo == Row(<<Null, Str(<<"0", "3", "/", "0", "2", "/", "2", "0", "2", "4">>), Str(<<" ", "s", "a", "l", "d", "o", " ">>), Null, Num(0), Num(50000)>>)
RowShort == Row(<<Null, Str(<<"0", "3", "/", "0", "2", "/", "2", "0", "2", "4">>), Str(<<"b">>)>>)
\* description "a|b" with reference "c", a negative numeric debit, a text credit
RowBarLeft == Row(<<Null, Str(<<"1", "5", "/", "0", "6", "/", "2", "0", "2", "4">>), Str(<<"a", "|", "b">>), Null, Num(0 - 500), Str(<<"1", ".", "2", "3", "4", ",", "5", "6">>), Null, Str(<<"c">>)>>)
\* description "a" with reference "b|c", the same date and amounts
RowBarRight == Row(<<Null, Str(<<"1", "5", "/", "0", "6", "/", "2", "0", "2", "4">>), Str(<<"a">>), Null, Str(<<"-", "5">>), Num(123456), Null, Str(<<"b", "|", "c">>)>>)
\* no date cell, a text credit of 12,5
RowNoDate == Row(<<Null, Null, Str(<<"b">>), Null, Null, Str(<<"1", "2", ",", "5">>)>>)
\* the date serial of 01/01/2024
RowSerial == Row(<<Null, Num(45292 * Scale), Str(<<"d">>), Null, Num(250), Null>>)
\* a date serial the library rejects
RowBadSerial == Row(<<Null, Num(0 - Scale), Str(<<"e">>), Null, Num(700), Null>>)
\* a data-like row above the header
RowAbove == Row(<<Null, Str(<<"0", "1", "/", "0", "1", "/", "2", "0", "2", "4">>), Str(<<"h">>), Null, Num(900), Null>>)
\* 15/06/2024 again, a later row of the same file
RowLate == Row(<<Null, Str(<<"1", "5", "/", "0", "6", "/", "2", "0", "2", "4">>), Str(<<"e">>), Null, Null, Num(300)>>)

\* a second row with the header's marker, below the header
RowFecha == Row(<<Null, Str(<<"0", "3", "/", "0", "2", "/", "2", "0", "2", "4">>), Str(<<"f", "e", "c", "h", "a">>), Null, Null, Num(100)>>)

\* RowSerial with its date and its debit written as text
RowSerialText == Row(<<Null, Str(<<"0", "1", "/", "0", "1", "/", "2", "0", "2", "4">>), Str(<<" ", "d">>), Null, Str(<<"2", ",", "5">>), Str(<<>>), Null, Null>>)
\* a numeric description
RowNumbers == Row(<<Null, Null, Num(250), Null, Null, Null, Null, Num(100)>>)

\* the rows parseTransaction is checked on, in pairs
SampleRows ==
  {RowHoy, RowPago, RowSaldo, RowShort, RowBarLeft, RowBarRight, RowNoDate, RowSerial,
   RowBadSerial, RowAbove, RowLate, RowFecha, RowSerialText, RowNumbers, HeaderRow, NullRow}

F1 == <<"f", "1">>
F2 == <<"f", "2">>
F3 == <<"f", "3">>
FileNames == {F1, F2, F3}

\* f1: a statement with a data-like row above its header; f2: a sheet
\* without a header row, overlapping f1; f3: a statement with a date serial
\* that cannot be decoded
rowsOf(name) ==
  IF name = F1
    THEN <<RowAbove, HeaderRow, RowHoy, RowPago, RowSaldo, RowShort, NullRow,
           RowBarRight, RowNoDate, RowSerial, RowFecha>>
  ELSE IF name = F2 THEN <<RowBarLeft, RowSaldo>>
  ELSE <<HeaderRow, RowLate, RowBadSerial>>

\* the row batches the properties of addTransactions are checked on: the
\* files' and a few more
Batches ==
  {rowsOf(name) : name \in FileNames}
    \cup {<<>>, <<HeaderRow>>, <<HeaderRow, RowBarLeft, RowPago>>, <<RowShort, RowAbove>>}

\* what addTransactions computes from the rows of each file, before it
\* touches the state
parsedOf == [name \in FileNames |-> parsedRows(rowsOf(name))]
throwsOf == [name \in FileNames |-> batchThrows(rowsOf(name))]
parsedBatch == [rows \in Batches |-> parsedRows(rows)]

\* a FileList: up to MaxSelect distinct files, possibly none
RECURSIVE SeqsUpTo(_, _)
SeqsUpTo(S, n) ==
  IF n = 0 THEN {<<>>}
  ELSE LET shorter == SeqsUpTo(S, n - 1)
       IN  shorter \cup {Append(q, x) : q \in {r \in shorter : Len(r) = n - 1}, x \in S}
FileLists ==
  {fl \in SeqsUpTo(FileNames, MaxSelect) : \A i, j \in 1..Len(fl) : i # j => fl[i] # fl[j]}

\* ------------------------------------------------------------------------
\* State
\* ------------------------------------------------------------------------
VARIABLES
  income,        \* state.income
  outcome,       \* state.outcome
  loadedFiles,   \* state.loadedFiles, in insertion order
  transactions,  \* state.transactions, in insertion order
  pending,       \* FileReaders in flight: how many per file name
  view,          \* text of the rendered elements
  uncaught,      \* an exception has left a handler
  last,          \* the handler that ran last and how it ended
  probe          \* two raw rows and what parseTransaction made of them

vars == <<income, outcome, loadedFiles, transactions, pending, view, uncaught, last, probe>>

\* the netBalance getter
netBalance == income - outcome

ledger == [transactions |-> transactions, income |-> income, outcome |-> outcome]

RECURSIVE pendingCountOver(_, _)
pendingCountOver(p, names) ==
  IF names = {} THEN 0
  ELSE LET n == CHOOSE x \in names : TRUE
       IN  p[n] + pendingCountOver(p, names \ {n})
pendingCount == pendingCountOver(pending, FileNames)

\* last.again: the handler ingested the file that the handler before it had
\* ingested
NoOp == [op |-> "none", name |-> <<>>, result |-> "none", again |-> FALSE]

NoProbe == [rows |-> <<>>, txs |-> <<>>]

\* the page as it is served, before any handler has run: the label, the
\* table and the dashboard of the empty ledger
initialPage ==
  [fileList |-> NoFilesLabel, txBody |-> <<>>,
   totalIncome |-> formatCurrency(0), totalOutcome |-> formatCurrency(0),
   netBalance |-> formatCurrency(0)]

Init ==
  /\ probe = NoProbe
  /\ income = 0
  /\ outcome = 0
  /\ loadedFiles = <<>>
  /\ transactions = <<>>
  /\ pending = [n \in FileNames |-> 0]
  /\ view = initialPage
  /\ uncaught = FALSE
  /\ last = NoOp

\* ------------------------------------------------------------------------
\* Handlers
\* ------------------------------------------------------------------------
\* the forEach of handleFiles: every name is added to loadedFiles ...
RECURSIVE addNames(_, _)
addNames(set, files) ==
  IF Len(files) = 0 THEN set ELSE addNames(setAdd(set, Head(files)), Tail(files))
\* ... and processFile starts one FileReader per file
RECURSIVE startReads(_, _)
startReads(p, files) ==
  IF Len(files) = 0 THEN p
  ELSE startReads([p EXCEPT ![Head(files)] = @ + 1], Tail(files))

\* handleFiles(files): the change and drop listeners; an empty FileList
\* returns at once
handleFiles(files) ==
  /\ pendingCount + Len(files) <= MaxPending
  /\ last' = [op |-> "handleFiles", name |-> <<>>,
              result |-> IF Len(files) = 0 THEN "empty" ELSE "started", again |-> FALSE]
  /\ IF Len(files) = 0
       THEN UNCHANGED <<loadedFiles, pending, view>>
       ELSE /\ loadedFiles' = addNames(loadedFiles, files)
            /\ pending' = startReads(pending, files)
            /\ view' = [view EXCEPT !.fileList = fileListText(loadedFiles')]
  /\ UNCHANGED <<income, outcome, transactions, uncaught, probe>>

\* reader.onerror: the read of one file failed; the failure is logged
onerror(name) ==
  /\ pending[name] > 0
  /\ last' = [op |-> "onerror", name |-> name, result |-> "readFailed", again |-> FALSE]
  /\ pending' = [pending EXCEPT ![name] = @ - 1]
  /\ UNCHANGED <<income, outcome, loadedFiles, transactions, view, uncaught, probe>>

\* (variant: the try block starts after the decoding)
onloadCatchesParseOnly(result) == result = "parseFailed"

\* the try/catch of reader.onload encloses the decoding and addTransactions
onloadCatches(result) == result \in {"decodeFailed", "parseFailed"}

\* how onload ends for a file: decodes = FALSE is XLSX.read throwing on its
\* bytes; otherwise addTransactions throws out of its map when a row cannot
\* be normalised, else it runs to its end
onloadResult(name, decodes) ==
  IF ~decodes THEN "decodeFailed"
  ELSE IF throwsOf[name] THEN "parseFailed"
  ELSE "ingested"

\* (variant: renderTransactions without its updateDashboard)
storedWithoutDashboard(added) ==
  /\ transactions' = added.transactions
  /\ income' = added.income
  /\ outcome' = added.outcome
  /\ view' = [view EXCEPT !.txBody = renderedRows(transactions')]

\* addTransactions has stored the rows: totals recalculated, table and
\* dashboard rendered
stored(added) ==
  /\ transactions' = added.transactions
  /\ income' = added.income
  /\ outcome' = added.outcome
  /\ view' = [view EXCEPT
                !.txBody = renderedRows(transactions'),
                !.totalIncome = formatCurrency(income'),
                !.totalOutcome = formatCurrency(outcome'),
                !.netBalance = formatCurrency(income' - outcome')]

\* addTransactions has thrown: the state is as it left it, nothing is
\* rendered
thrown(added) ==
  /\ transactions' = added.transactions
  /\ income' = added.income
  /\ outcome' = added.outcome
  /\ UNCHANGED view

onloadEnds(name, result) ==
  /\ last' = [op |-> "onload", name |-> name, result |-> result,
              again |-> /\ result = "ingested"
                        /\ last.op = "onload"
                        /\ last.result = "ingested"
                        /\ last.name = name]
  /\ uncaught' = (uncaught \/ (result # "ingested" /\ ~onloadCatches(result)))
  /\ IF result = "ingested"
       THEN stored(addParsed(ledger, parsedOf[name]))
       ELSE IF result = "parseFailed"
       THEN thrown(addParsed(ledger, parsedOf[name]))
       ELSE UNCHANGED <<transactions, income, outcome, view>>

\* reader.onload: the bytes of one file arrived
onload(name, decodes) ==
  /\ pending[name] > 0
  /\ pending' = [pending EXCEPT ![name] = @ - 1]
  /\ onloadEnds(name, onloadResult(name, decodes))
  /\ UNCHANGED <<loadedFiles, probe>>

\* (variant: loadedFiles survives the reset)
resetKeepsFiles ==
  [income |-> 0, outcome |-> 0, loadedFiles |-> loadedFiles, transactions |-> <<>>]

\* state.reset()
reset ==
  [income |-> 0, outcome |-> 0, loadedFiles |-> <<>>, transactions |-> <<>>]

\* clearData: reset, empty the table, refresh the label and the dashboard
clearData ==
  /\ last' = [op |-> "clearData", name |-> <<>>,
              result |-> IF Len(transactions) > 0 THEN "cleared" ELSE "wasEmpty",
              again |-> FALSE]
  /\ income' = reset.income
  /\ outcome' = reset.outcome
  /\ loadedFiles' = reset.loadedFiles
  /\ transactions' = reset.transactions
  /\ view' = [fileList |-> fileListText(loadedFiles'), txBody |-> <<>>,
              totalIncome |-> formatCurrency(income'),
              totalOutcome |-> formatCurrency(outcome'),
              netBalance |-> formatCurrency(income' - outcome')]
  /\ UNCHANGED <<pending, uncaught, probe>>

Next ==
  \/ \E files \in FileLists : handleFiles(files)
  \/ \E name \in FileNames : onerror(name)
  \/ \E name \in FileNames, decodes \in BOOLEAN : onload(name, decodes)
  \/ clearData

Spec == Init /\ [][Next]_vars

\* ------------------------------------------------------------------------
\* parseTransaction on pairs of rows, as the map of addTransactions applies
\* it to the rows the filter kept
\* ------------------------------------------------------------------------
InitNormalize ==
  /\ income = 0
  /\ outcome = 0
  /\ loadedFiles = <<>>
  /\ transactions = <<>>
  /\ pending = [n \in FileNames |-> 0]
  /\ view = initialPage
  /\ uncaught = FALSE
  /\ last = NoOp
  /\ \E a \in SampleRows, b \in SampleRows : probe = [rows |-> <<a, b>>, txs |-> <<>>]

normalize ==
  /\ probe.txs = <<>>
  /\ \A i \in 1..2 : isValidDataRow(probe.rows[i]) /\ ~parseTransaction(probe.rows[i]).throws
  /\ probe' = [probe EXCEPT !.txs = [i \in 1..2 |-> parseTransaction(probe.rows[i]).tx]]
  /\ UNCHANGED <<income, outcome, loadedFiles, transactions, pending, view, uncaught, last>>

NextNormalize == normalize

SpecNormalize == InitNormalize /\ [][NextNormalize]_vars

\* ------------------------------------------------------------------------
\* parseMoney on single cells, as parseTransaction applies it to the debit
\* and credit cells of a row
\* ------------------------------------------------------------------------
MaxCellLen == 3
MaxCellNumber == 5

MoneyChars == {"1", "5", ".", ",", "-", "a", " "}
RECURSIVE textsUpTo(_)
textsUpTo(n) ==
  IF n = 0 THEN {<<>>}
  ELSE textsUpTo(n - 1)
         \cup {Append(t, c) : t \in {u \in textsUpTo(n - 1) : Len(u) = n - 1}, c \in MoneyChars}

Thousands == <<"1", ".", "2", "3", "4", ",", "5", "6">>
MillionsText == <<"1", ".", "2", "3", "4", ".", "5", "1", "1">>
TwoCommas == <<"1", ",", "2", ",", "5">>

MoneyCells ==
  {Null}
    \cup {Num(n) : n \in {0 - 1, 0} \cup {k * 25 : k \in 1..MaxCellNumber}}
    \cup {Str(t) : t \in textsUpTo(MaxCellLen) \cup {Thousands, MillionsText, TwoCommas}}

InitMoney ==
  /\ income = 0
  /\ outcome = 0
  /\ loadedFiles = <<>>
  /\ transactions = <<>>
  /\ pending = [n \in FileNames |-> 0]
  /\ view = initialPage
  /\ uncaught = FALSE
  /\ last = NoOp
  /\ \E c \in MoneyCells : probe = [cell |-> c, amounts |-> <<>>]

amount ==
  /\ probe.amounts = <<>>
  /\ probe' = [probe EXCEPT !.amounts = <<parseMoney(probe.cell)>>]
  /\ UNCHANGED <<income, outcome, loadedFiles, transactions, pending, view, uncaught, last>>

NextMoney == amount

SpecMoney == InitMoney /\ [][NextMoney]_vars

\* ------------------------------------------------------------------------
\* Properties
\* ------------------------------------------------------------------------
\* a Map as a mapping: the set of its (key, value) pairs
asMapping(m) == {<<m[i].key, m[i].value>> : i \in 1..Len(m)}

\* C1: in every state between handlers, income is the sum of the credits of
\* the stored transactions, outcome the sum of their debits, and netBalance
\* is income - outcome.
C1_AggregateConsistency ==
  /\ income = sumCredit(transactions)
  /\ outcome = sumDebit(transactions)
  /\ netBalance = income - outcome

\* a second ingestion has run on a ledger with credits and debits
C1_Witness ==
  /\ last.op = "onload" /\ last.result = "ingested"
  /\ Len(transactions) > 5
  /\ income > 0 /\ outcome > 0

\* C2: from any ledger, ingesting batch A then batch B gives the same
\* mapping of keys to transactions, the same income and the same outcome as
\* ingesting B then A.
C2_IngestionCommutes ==
  \A A \in Batches, B \in Batches :
    LET ab == addParsed(addParsed(ledger, parsedBatch[A]), parsedBatch[B])
        ba == addParsed(addParsed(ledger, parsedBatch[B]), parsedBatch[A])
    IN  /\ asMapping(ab.transactions) = asMapping(ba.transactions)
        /\ ab.income = ba.income
        /\ ab.outcome = ba.outcome

\* C3: from any ledger, ingesting a batch a second time right after the
\* first leaves transactions, income and outcome as the first ingestion left
\* them; when onload ingests the file the handler before it ingested,
\* loadedFiles does not change either.
C3_ReingestionIdempotent ==
  [][ /\ \A A \in Batches :
           LET once == addParsed(ledger, parsedBatch[A])
           IN  addParsed(once, parsedBatch[A]) = once
      /\ \A name \in FileNames :
           (onload(name, TRUE) /\ last'.again)
             => UNCHANGED <<transactions, income, outcome, loadedFiles>> ]_vars

\* the same file was ingested twice in a row into a ledger that holds more
C3_Witness ==
  /\ last.again
  /\ Len(parsedOf[last.name]) > 0
  /\ Len(transactions) > Len(parsedOf[last.name])

\* C4: ingesting a batch without a header row leaves transactions, income
\* and outcome as they were.
C4_NoHeaderContributesNothing ==
  [][ \A name \in FileNames :
        (onload(name, TRUE) /\ findHeaderRowIndex(rowsOf(name)) = 0 - 1)
          => UNCHANGED <<transactions, income, outcome>> ]_vars

\* the five normalised fields of a transaction
fieldsOf(tx) == <<tx.date, tx.description, tx.reference, tx.debit, tx.credit>>

\* C5: two valid rows get the same key if and only if they normalise to the
\* same date, description, reference, debit and credit.
C5_KeyInjective ==
  probe.txs # <<>>
    => ((probe.txs[1].key = probe.txs[2].key) <=> (fieldsOf(probe.txs[1]) = fieldsOf(probe.txs[2])))

\* C6: every entry of the map is stored under the key in its own key field,
\* that key is date|description|reference|debit|credit of its own fields, and
\* no two entries have the same key.
C6_OneEntryPerKey ==
  /\ \A i \in 1..Len(transactions) :
       LET tx == transactions[i].value
       IN  /\ transactions[i].key = tx.key
           /\ tx.key = tx.date \o <<"|">> \o tx.description \o <<"|">> \o tx.reference
                          \o <<"|">> \o numberToString(tx.debit)
                          \o <<"|">> \o numberToString(tx.credit)
  /\ \A i, j \in 1..Len(transactions) :
       transactions[i].key = transactions[j].key => i = j

\* both overlapping files are in the ledger
C6_Witness ==
  /\ last.op = "onload" /\ last.result = "ingested"
  /\ \E i \in 1..Len(transactions) : transactions[i].value = parsedOf[F2][1].tx
  /\ \E i \in 1..Len(transactions) : transactions[i].value = parsedOf[F1][1].tx

\* C7: clearData can always run, and right after it transactions and
\* loadedFiles are empty and income, outcome and netBalance are 0.
C7_ResetToInitial ==
  [][ clearData
        => /\ transactions' = <<>>
           /\ loadedFiles' = <<>>
           /\ income' = 0 /\ outcome' = 0 /\ netBalance' = 0 ]_vars

\* clearData has just cleared a ledger that held transactions, with a read
\* still in flight
C7_Witness ==
  /\ last.op = "clearData" /\ last.result = "cleared"
  /\ pendingCount > 0
  /\ transactions = <<>> /\ loadedFiles = <<>>

\* C8: a failed read or a failed decode of one file leaves transactions,
\* income and outcome as they were, lets no exception out of the handler,
\* and leaves the reads of the other files in flight.
C8_FailureIsolated ==
  [][ \A name \in FileNames :
        (onerror(name) \/ onload(name, FALSE))
          => /\ UNCHANGED <<transactions, income, outcome>>
             /\ ~uncaught'
             /\ pending'[name] = pending[name] - 1
             /\ \A other \in FileNames \ {name} : pending'[other] = pending[other] ]_vars

\* a decode failed while the ledger held transactions and another file's
\* read was in flight
C8_Witness ==
  /\ last.op = "onload" /\ last.result = "decodeFailed"
  /\ Len(transactions) > 0
  /\ \E other \in FileNames \ {last.name} : pending[other] > 0

\* C9: every stored transaction has debit >= 0 and credit >= 0.
C9_AmountsNonNegative ==
  \A i \in 1..Len(transactions) :
    transactions[i].value.debit >= 0 /\ transactions[i].value.credit >= 0

\* a date string of three "/"-separated runs of digits, read as day, month, year
hasCalendarDate(d) ==
  LET parts == split(d, "/")
  IN  Len(parts) = 3 /\ \A i \in 1..3 : Len(parts[i]) > 0 /\ AllDigits(parts[i])
calendarDate(d) ==
  LET parts == split(d, "/")
  IN  <<digitsValue(parts[3]), digitsValue(parts[2]), digitsValue(parts[1])>>
laterDate(x, y) ==
  \/ x[1] > y[1]
  \/ x[1] = y[1] /\ x[2] > y[2]
  \/ x[1] = y[1] /\ x[2] = y[2] /\ x[3] > y[3]

\* C10: getSortedTransactions returns every stored transaction exactly once;
\* no transaction with a later calendar date comes after one with an earlier
\* date, and no transaction with a date comes after one without.
C10_SortedByDateDescending ==
  LET sorted == getSortedTransactions(transactions)
  IN  /\ Len(sorted) = Len(transactions)
      /\ \A i \in 1..Len(transactions) :
           Cardinality({j \in 1..Len(sorted) : sorted[j] = transactions[i].value}) = 1
      /\ \A i, j \in 1..Len(sorted) :
           (i < j /\ hasCalendarDate(sorted[i].date) /\ hasCalendarDate(sorted[j].date))
             => ~laterDate(calendarDate(sorted[j].date), calendarDate(sorted[i].date))
      /\ \A i, j \in 1..Len(sorted) :
           (i < j /\ hasCalendarDate(sorted[j].date)) => hasCalendarDate(sorted[i].date)

\* the map holds three different dates and two unparseable ones, in an order
\* that is not the sorted one
C10_Witness ==
  LET sorted == getSortedTransactions(transactions)
  IN  /\ Cardinality({calendarDate(sorted[i].date) :
                        i \in {j \in 1..Len(sorted) : hasCalendarDate(sorted[j].date)}}) >= 3
      /\ Cardinality({i \in 1..Len(sorted) : ~hasCalendarDate(sorted[i].date)}) >= 2
      /\ sorted # mapValues(transactions)
      /\ view.txBody = [i \in 1..Len(sorted) |-> createTransactionRow(sorted[i])]

\* the rows of the files
fileRows == UNION {{rowsOf(name)[i] : i \in 1..Len(rowsOf(name))} : name \in FileNames}

\* what the rows of at least 5 cells normalise to
longRowTransactions ==
  {parseTransaction(r).tx : r \in {q \in fileRows : ~q.isNull /\ Len(q.cells) >= 5}}

\* a row of at least 5 cells whose trimmed description is not empty and does
\* not contain SALDO in any letter case
describedRow(desc) == Len(desc) > 0 /\ ~includes(toUpperCase(desc), SALDO)
validAsClaimed(r) ==
  /\ ~r.isNull
  /\ Len(r.cells) >= 5
  /\ describedRow(trim(cellToString(r.cells[3])))

\* C11: isValidDataRow accepts exactly the rows of at least 5 cells whose
\* trimmed description is non-empty and free of SALDO; no stored transaction
\* has an empty description or one containing SALDO in any letter case, and
\* every stored transaction comes from a row of at least 5 cells.
C11_OnlyValidRowsStored ==
  /\ \A r \in SampleRows \cup fileRows : isValidDataRow(r) <=> validAsClaimed(r)
  /\ \A i \in 1..Len(transactions) :
       /\ describedRow(transactions[i].value.description)
       /\ transactions[i].value \in longRowTransactions

\* f1, which has a balance row, a short row and a null row, has been ingested
C11_Witness ==
  /\ last.op = "onload" /\ last.result = "ingested" /\ last.name = F1
  /\ Len(transactions) >= Len(parsedOf[F1])
  /\ \E i \in 1..Len(rowsOf(F1)) : ~validAsClaimed(rowsOf(F1)[i])

\* the text of a cell with every "." removed and the first "," turned into "."
RECURSIVE rewrittenFrom(_, _, _)
rewrittenFrom(s, i, seen) ==
  IF i > Len(s) THEN <<>>
  ELSE IF s[i] = "." THEN rewrittenFrom(s, i + 1, seen)
  ELSE IF s[i] = "," /\ ~seen THEN <<".">> \o rewrittenFrom(s, i + 1, TRUE)
  ELSE <<s[i]>> \o rewrittenFrom(s, i + 1, seen)
commas(s) == Cardinality({i \in 1..Len(s) : s[i] = ","})
amountAsClaimed(c) ==
  IF c.t = "null" THEN 0
  ELSE IF c.t = "number" THEN c.n
  ELSE IF commas(c.s) >= 2 THEN 0
  ELSE IF stringToNumber(rewrittenFrom(c.s, 1, FALSE)).nan THEN 0
  ELSE stringToNumber(rewrittenFrom(c.s, 1, FALSE)).v

\* C12: parseMoney answers a number for every cell: 0 for a null cell, the
\* value itself for a numeric cell, for a text cell the number read after
\* removing every "." and replacing the first "," by ".", and 0 when that
\* text is not a decimal number; "1.234,56" gives 1234.56.
C12_ParseMoneyTotal ==
  Len(probe.amounts) > 0 =>
    /\ probe.amounts[1] \in Int
    /\ probe.amounts[1] = amountAsClaimed(probe.cell)
    /\ probe.cell = Str(Thousands) => probe.amounts[1] = 1234 * Scale + 56
    /\ probe.cell = Str(TwoCommas) => probe.amounts[1] = 0

\* "1.234,56" has been parsed, to 1234.56
C12_Witness ==
  /\ probe.cell = Str(Thousands)
  /\ probe.amounts = <<1234 * Scale + 56>>

\* the position (from 1) of the first row with a text cell whose upper case
\* contains FECHA, and the valid rows strictly below it
headerPositions(A) == {i \in 1..Len(A) : isHeaderRow(A[i])}
firstHeader(A) == CHOOSE i \in headerPositions(A) : \A j \in headerPositions(A) : i <= j
validBelow(A, h) == {i \in (h + 1)..Len(A) : validAsClaimed(A[i])}
normalisable(A) ==
  /\ headerPositions(A) # {}
  /\ \A i \in validBelow(A, firstHeader(A)) : ~parseTransaction(A[i]).throws
contributionAsClaimed ==
  [A \in {B \in Batches : normalisable(B)} |->
     {parseTransaction(A[i]).tx : i \in validBelow(A, firstHeader(A))}]
valuesOf(m) == {m[i].value : i \in 1..Len(m)}

keysOf(m) == {m[i].key : i \in 1..Len(m)}
listed == {loadedFiles[i] : i \in 1..Len(loadedFiles)}

\* C14: a step other than a reset removes no key from the ledger and
\* replaces no stored transaction by a different value under the same key.
C14_IngestionAdditive ==
  [][ last'.op # "clearData"
        => \A i \in 1..Len(transactions) :
             \E j \in 1..Len(transactions') : transactions'[j] = transactions[i] ]_vars

\* C15: a file name is in loadedFiles only if the rows of that file have
\* been ingested since the last reset, so that the ledger holds the key of
\* every transaction its rows normalise to.
C15_ListedOnlyIfIngested ==
  \A name \in listed :
    \A j \in 1..Len(parsedOf[name]) : parsedOf[name][j].tx.key \in keysOf(transactions)

\* C16: every stored transaction was produced by a file whose name is in
\* loadedFiles; in particular a non-empty ledger has a non-empty loadedFiles.
C16_StoredComesFromListed ==
  /\ Len(transactions) > 0 => Len(loadedFiles) > 0
  /\ \A i \in 1..Len(transactions) :
       \E name \in listed :
         \E j \in 1..Len(parsedOf[name]) : parsedOf[name][j].tx = transactions[i].value

\* the files with a valid data row that cannot be normalised
dataStart(A) == IF headerPositions(A) = {} THEN 0 ELSE firstHeader(A)
failingFiles ==
  {name \in FileNames :
     \E i \in validBelow(rowsOf(name), dataStart(rowsOf(name))) :
       parseTransaction(rowsOf(name)[i]).throws}

\* C17: when a row of a batch fails to normalise, the ingestion of the batch
\* stores none of its transactions: transactions, income and outcome are
\* what they were before it.
C17_FailedBatchStoresNothing ==
  [][ \A name \in failingFiles :
        onload(name, TRUE) => UNCHANGED <<transactions, income, outcome>> ]_vars

\* f3, whose second data row has a date serial that cannot be decoded, has
\* failed to ingest into a ledger that holds transactions
C17_Witness ==
  /\ last.op = "onload" /\ last.result = "parseFailed"
  /\ last.name \in failingFiles
  /\ Len(transactions) > 0
  /\ \E i \in 1..Len(parsedOf[last.name]) : ~parsedOf[last.name][i].throws

====
